---------------------------- MODULE Spec2Model ----------------------------
(***************************************************************************)
(* JiraLand: the FileHandler pipeline of src/JLFileHandler.py.             *)
(*                                                                         *)
(* One run of FileHandler.generate_csv is modelled as a sequence of steps, *)
(* one per statement group of the call chain                               *)
(*   generate_csv -> _merge_files -> _normalize_jira_export_file           *)
(*                                -> _normalize_map_file                   *)
(* A Python exception that no handler of the chain catches ends the run in *)
(* pc = "raised" with the exception's name in `raised`.                    *)
(*                                                                         *)
(* Text that the code inspects character by character (Sprint labels) is a *)
(* sequence of one-character strings; messages, Issue keys and Summaries   *)
(* are sequences of text fragments that the code only concatenates.  A     *)
(* missing cell (the float NaN that the pandas readers produce for an      *)
(* empty cell) is the value NaN.  Files that exist are taken to be         *)
(* readable tables whose text columns pandas loads as object columns; the  *)
(* destination is taken to be writable.                                    *)
(***************************************************************************)
EXTENDS Integers, Sequences, FiniteSets, TLC

(***************************************************************************)
(* Bounds of the model.                                                    *)
(***************************************************************************)
\* rows of the Jira export table in the pipeline-wide specification
MaxRows == 2
\* rows of the Jira export table in the sprint-inference specification
MaxSprintRows == 3
\* rows of each table in the join specification
MaxJoinRows == 2
\* characters of a Sprint label in front of its period
MaxLabelLen == 21

(***************************************************************************)
(* Characters and strings.                                                 *)
(***************************************************************************)
\* the characters used, in code point order (Python compares str by code point)
CodeOrder ==
    <<" ", ".", "0", "1", "2", "3", "4", "5", "6", "7", "8", "9", "I", "P",
      "S", "T", "\\", "a", "e", "i", "m", "n", "p", "r", "t", "v">>

Ord(c) == CHOOSE i \in 1..Len(CodeOrder) : CodeOrder[i] = c

Digits == {"0", "1", "2", "3", "4", "5", "6", "7", "8", "9"}

\* the float NaN of an empty cell; not a str
NaN == <<"NaN">>

IsStr(v) == v # NaN

\* Python's a < b on str
RECURSIVE StrLess(_, _)
StrLess(a, b) ==
    IF b = <<>> THEN FALSE
    ELSE IF a = <<>> THEN TRUE
    ELSE IF Head(a) # Head(b) THEN Ord(Head(a)) < Ord(Head(b))
    ELSE StrLess(Tail(a), Tail(b))

\* Python's max() over a non-empty collection of str
MaxStr(S) == CHOOSE m \in S : \A x \in S : ~StrLess(m, x)

\* Python's `sub in s` on str
Contains(s, sub) ==
    \E i \in 1..(Len(s) - Len(sub) + 1) : SubSeq(s, i, i + Len(sub) - 1) = sub

Range(f) == {f[i] : i \in DOMAIN f}

(***************************************************************************)
(* The two regular expressions of the FileHandler.                         *)
(***************************************************************************)
\* r'[0-9]{2}\.[0-9]{1}' matches at position i of s
PiPatternAt(s, i) ==
    /\ i >= 1
    /\ i + 3 <= Len(s)
    /\ s[i] \in Digits
    /\ s[i + 1] \in Digits
    /\ s[i + 2] = "."
    /\ s[i + 3] \in Digits

\* re.search(pattern, s): position of the leftmost match, 0 for None
SearchPi(s) ==
    IF \E i \in 1..Len(s) : PiPatternAt(s, i)
    THEN CHOOSE i \in 1..Len(s) :
            PiPatternAt(s, i) /\ \A j \in 1..(i - 1) : ~PiPatternAt(s, j)
    ELSE 0

\* re.search(pattern, s).group(0)
PiGroup(s) == SubSeq(s, SearchPi(s), SearchPi(s) + 3)

\* re.sub(pi_pattern, repl, s): every non-overlapping match, left to right
RECURSIVE SubPi(_, _)
SubPi(s, repl) ==
    IF SearchPi(s) = 0 THEN s
    ELSE SubSeq(s, 1, SearchPi(s) - 1) \o repl
            \o SubPi(SubSeq(s, SearchPi(s) + 4, Len(s)), repl)

\* re.sub(r'[0-9]{1}$', repl, s): a digit that ends s (cells hold no line break)
SubSprint(s, repl) ==
    IF Len(s) > 0 /\ s[Len(s)] \in Digits
    THEN SubSeq(s, 1, Len(s) - 1) \o repl
    ELSE s

(***************************************************************************)
(* Outcome of a call: a returned value, or an exception that propagates.   *)
(***************************************************************************)
Returns(v) == [exc |-> "none", val |-> v]
Raises(e) == [exc |-> e, val |-> <<>>]


(***************************************************************************)
(* JLError and the values that flow between the stages.                    *)
(***************************************************************************)
\* a pandas DataFrame: column names, index labels and rows (column -> cell)
NoTable == [columns |-> <<>>, index |-> <<>>, rows |-> <<>>]

\* JLError(message)
JLError(message) == [kind |-> "error", message |-> message, table |-> NoTable]

DataFrame(t) == [kind |-> "table", message |-> <<>>, table |-> t]

\* a local variable that has not been assigned yet
Unset == [kind |-> "unset", message |-> <<>>, table |-> NoTable]

\* isinstance(x, JLError)
IsError(x) == x.kind = "error"

UnsupportedMessage ==
    <<"Unsupported file type.\n", "Please use only excel or csv files.">>

FileNotFoundMessage == <<"File not found!">>

MissingColumnsMessage ==
    <<"One or more table columns missing.\n",
      "Please check if table is in expected format.">>

SuccessMessage == <<"CSV file generated successfully!">>

(***************************************************************************)
(* DataFrame operations used by the FileHandler.                           *)
(***************************************************************************)
RECURSIVE SortedSeq(_)
SortedSeq(S) ==
    IF S = {} THEN <<>>
    ELSE LET m == CHOOSE x \in S : \A y \in S : x <= y
         IN  <<m>> \o SortedSeq(S \ {m})

\* the rows at the positions P, in order, with their index labels
TakeRows(t, P) ==
    LET pos == SortedSeq(P)
    IN  [columns |-> t.columns,
         index   |-> [k \in 1..Len(pos) |-> t.index[pos[k]]],
         rows    |-> [k \in 1..Len(pos) |-> t.rows[pos[k]]]]

\* df.query("`col` == value"): a NaN cell equals nothing
QueryEquals(t, col, value) ==
    TakeRows(t, {i \in 1..Len(t.rows) : t.rows[i][col] = value})

\* df[[cols]] raises KeyError when a column is missing
HasColumns(t, cols) == Range(cols) \subseteq Range(t.columns)

SelectColumns(t, cols) ==
    [columns |-> cols,
     index   |-> t.index,
     rows    |-> [i \in 1..Len(t.rows) |-> [c \in Range(cols) |-> t.rows[i][c]]]]

\* df.rename(columns={old: new})
RenameColumn(t, old, new) ==
    LET name(c) == IF c = old THEN new ELSE c
        back(c) == IF c = new THEN old ELSE c
    IN  [columns |-> [k \in 1..Len(t.columns) |-> name(t.columns[k])],
         index   |-> t.index,
         rows    |-> [i \in 1..Len(t.rows) |->
                        [c \in {name(x) : x \in Range(t.columns)} |->
                            t.rows[i][back(c)]]]]

\* df.loc[:, col]: a Series, the cells of one column under the index labels
Column(t, col) ==
    [index  |-> t.index,
     values |-> [i \in 1..Len(t.rows) |-> t.rows[i][col]]]

\* pandas matches join keys by value, and a NaN key matches a NaN key
KeysMatch(a, b) == a = b

\* pd.merge(left, right, on=[key]): inner join, in the order of the left rows,
\* under a fresh 0..n-1 index
RECURSIVE MergePairs(_, _, _, _, _)
MergePairs(left, right, key, i, j) ==
    IF i > Len(left.rows) THEN <<>>
    ELSE IF j > Len(right.rows) THEN MergePairs(left, right, key, i + 1, 1)
    ELSE (IF KeysMatch(left.rows[i][key], right.rows[j][key])
          THEN << <<i, j>> >> ELSE <<>>)
         \o MergePairs(left, right, key, i, j + 1)

Merge(left, right, key) ==
    LET pairs == MergePairs(left, right, key, 1, 1)
        rest  == SelectSeq(right.columns, LAMBDA c : c # key)
    IN  [columns |-> left.columns \o rest,
         index   |-> [k \in 1..Len(pairs) |-> k - 1],
         rows    |-> [k \in 1..Len(pairs) |->
                        [c \in Range(left.columns) \cup Range(rest) |->
                            IF c \in Range(left.columns)
                            THEN left.rows[pairs[k][1]][c]
                            ELSE right.rows[pairs[k][2]][c]]]]

\* a variant that joins in the other order
JoinSummaryKey(issue_key, summary) == summary \o <<" ">> \o issue_key

\* " ".join([issue_key, summary])
JoinKeySummary(issue_key, summary) == issue_key \o <<" ">> \o summary

(***************************************************************************)
(* FileHandler: the functions of the class.                                *)
(***************************************************************************)
SupportedFileTypes == {<<"xls">>, <<"xlsx">>, <<"csv">>}

\* file.split(".")[-1]: what follows the last "." (the whole path without one)
RECURSIVE LastField(_)
LastField(file) ==
    IF file = <<>> THEN <<>>
    ELSE IF file[Len(file)] = "." THEN <<>>
    ELSE LastField(SubSeq(file, 1, Len(file) - 1)) \o <<file[Len(file)]>>

\* FileHandler._check_file_extension
check_file_extension(file) ==
    IF LastField(file) \in SupportedFileTypes
    THEN [kind |-> "str", message |-> <<>>, ext |-> LastField(file)]
    ELSE [kind |-> "error", message |-> UnsupportedMessage, ext |-> <<>>]

\* a variant that looks for the file before it looks at the extension
load_data_file_first(file, content) ==
    IF content.kind = "missing" THEN JLError(FileNotFoundMessage)
    ELSE IF IsError(check_file_extension(file))
    THEN JLError(check_file_extension(file).message)
    ELSE DataFrame(content.table)

\* FileHandler._load_data: `content` is what the file system holds at `file`
load_data(file, content) ==
    IF IsError(check_file_extension(file))
    THEN JLError(check_file_extension(file).message)
    ELSE IF content.kind = "missing" THEN JLError(FileNotFoundMessage)
    ELSE DataFrame(content.table)

\* a variant that takes the period of the first Sprint instead of the maximum
determine_current_pi_first(sprints) ==
    LET bad(i) == ~IsStr(sprints[i]) \/ SearchPi(sprints[i]) = 0
    IN  IF \E i \in 1..Len(sprints) : bad(i) THEN Raises("AttributeError")
        ELSE IF Len(sprints) = 0 THEN Raises("ValueError")
        ELSE Returns(PiGroup(sprints[1]))

\* FileHandler._determine_current_pi: the list comprehension fails at the
\* first Sprint that is not a str (TypeError) or has no match (AttributeError:
\* None has no group); max() of an empty list is a ValueError
determine_current_pi(sprints) ==
    LET bad(i) == ~IsStr(sprints[i]) \/ SearchPi(sprints[i]) = 0
        n == Len(sprints)
    IN  IF \E i \in 1..n : bad(i)
        THEN LET f == CHOOSE i \in 1..n : bad(i) /\ \A j \in 1..(i - 1) : ~bad(j)
             IN  IF IsStr(sprints[f]) THEN Raises("AttributeError")
                 ELSE Raises("TypeError")
        ELSE IF n = 0 THEN Raises("ValueError")
        ELSE Returns(MaxStr({PiGroup(sprints[i]) : i \in 1..n}))

\* a variant that takes the maximum over every Sprint, whatever its period
determine_latest_sprint_any_pi(sprints, current_pi) ==
    LET last == {<<sprints[i][Len(sprints[i])]>> : i \in 1..Len(sprints)}
    IN  IF last = {} THEN Raises("ValueError") ELSE Returns(MaxStr(last))

\* FileHandler._determine_latest_sprint
determine_latest_sprint(sprints, current_pi) ==
    LET last == {<<sprints[i][Len(sprints[i])]>> :
                    i \in {k \in 1..Len(sprints) : Contains(sprints[k], current_pi)}}
    IN  IF last = {} THEN Raises("ValueError") ELSE Returns(MaxStr(last))

\* sprints[0] on a Series with an integer index is a lookup of the label 0
LabelZero(series) ==
    IF \E k \in 1..Len(series.index) : series.index[k] = 0
    THEN Returns(series.values[CHOOSE k \in 1..Len(series.index) : series.index[k] = 0])
    ELSE Raises("KeyError")

\* FileHandler._compose_query; re.sub rejects a replacement that is a lone
\* backslash (re.error) before it looks for a match
compose_query(series, current_pi, current_sprint) ==
    IF LabelZero(series).exc # "none" THEN LabelZero(series)
    ELSE IF current_sprint = <<"\\">> THEN Raises("re.error")
    ELSE Returns(SubSprint(SubPi(LabelZero(series).val, current_pi), current_sprint))


\* a variant that leaves the Summary column out of the selection
JiraColumnsWithoutSummary ==
    <<"Issue key", "Issue Type", "Custom field (Feature Link)", "Sprint">>

\* the columns that _normalize_jira_export_file selects
JiraColumns ==
    <<"Summary", "Issue key", "Issue Type", "Custom field (Feature Link)", "Sprint">>

\* the columns that _normalize_map_file selects
MapColumns == <<"Feature", "Label">>

\* the columns that generate_csv writes
CsvColumns == <<"Issue Type", "Summary", "Label">>

\* _merge_files: the JLError built from the results of the two normalizations
BothFailedMessage(jira_message, map_message) ==
    jira_message \o <<"(from Jira extraction file)", " and\n">>
        \o map_message \o <<" ", "(from map file)">>

JiraFailedMessage(jira_message) ==
    jira_message \o <<" ", "(from Jira extraction file)">>

MapFailedMessage(map_message) == map_message \o <<" ", "(from map file)">>

\* a variant that stops at the first failure
merge_error_first_only(jira_result, map_result) ==
    IF IsError(jira_result) THEN JLError(JiraFailedMessage(jira_result.message))
    ELSE IF IsError(map_result) THEN JLError(MapFailedMessage(map_result.message))
    ELSE Unset

merge_error(jira_result, map_result) ==
    IF IsError(jira_result) /\ IsError(map_result)
    THEN JLError(BothFailedMessage(jira_result.message, map_result.message))
    ELSE IF IsError(jira_result) THEN JLError(JiraFailedMessage(jira_result.message))
    ELSE IF IsError(map_result) THEN JLError(MapFailedMessage(map_result.message))
    ELSE Unset

\* merged_data["Summary"] = merged_data[["Issue key", "Summary"]].apply(" ".join, axis=1)
ConcatSummary(t) ==
    [columns |-> t.columns,
     index   |-> t.index,
     rows    |-> [i \in 1..Len(t.rows) |->
                    [t.rows[i] EXCEPT !["Summary"] =
                        JoinKeySummary(t.rows[i]["Issue key"], t.rows[i]["Summary"])]]]

\* _merge_files after the error checks.  str.join raises TypeError on a NaN
\* cell.  On a join without rows DataFrame.apply cannot call the function:
\* depending on the installed pandas it yields an empty Series (the table
\* stays empty) or a frame that the column assignment rejects (ValueError);
\* empty_apply_fails is which of the two the installation does.
merge_tables(jira_table, map_table, empty_apply_fails) ==
    LET merged == Merge(jira_table, map_table, "Feature")
    IN  IF Len(merged.rows) = 0
        THEN (IF empty_apply_fails THEN Raises("ValueError")
              ELSE Returns(DataFrame(merged)))
        ELSE IF \E i \in 1..Len(merged.rows) :
                    ~IsStr(merged.rows[i]["Issue key"]) \/ ~IsStr(merged.rows[i]["Summary"])
        THEN Raises("TypeError")
        ELSE Returns(DataFrame(ConcatSummary(merged)))

\* DataFrame.to_csv writes a NaN cell as an empty field
CsvField(cell) == IF IsStr(cell) THEN cell ELSE <<>>

\* table.to_csv(name, columns=[...], index=False): the file it leaves
to_csv(t, name, columns) ==
    [name   |-> name,
     header |-> columns,
     rows   |-> [i \in 1..Len(t.rows) |->
                    [k \in 1..Len(columns) |-> CsvField(t.rows[i][columns[k]])]]]

NoFile == [name |-> <<>>, header |-> <<>>, rows |-> <<>>]

(***************************************************************************)
(* State of one run of generate_csv.                                       *)
(***************************************************************************)
VARIABLES
    jira_file,                      \* argument: path of the Jira export
    map_file,                       \* argument: path of the map file
    export_file_name,               \* argument: output name without ".csv"
    disk_jira,                      \* what the file system holds at jira_file
    disk_map,                       \* what the file system holds at map_file
    pc,                             \* the statement the run is at
    raised,                         \* the exception that ended the run
    jira_extraction_result,         \* file_extraction_result of the Jira normalizer
    truncated_data,                 \* truncated_data of the Jira normalizer
    active_pi,
    active_sprint,
    query,
    normalized_jira_output_result,
    map_extraction_result,          \* file_extraction_result of the map normalizer
    normalized_map_file_result,
    table_to_export_result,
    returned,                       \* the str that generate_csv returned
    written                         \* the file that to_csv left

vars ==
    <<jira_file, map_file, export_file_name, disk_jira, disk_map, pc, raised,
      jira_extraction_result, truncated_data, active_pi, active_sprint, query,
      normalized_jira_output_result, map_extraction_result,
      normalized_map_file_result, table_to_export_result, returned, written>>

inputs == <<jira_file, map_file, export_file_name, disk_jira, disk_map>>

\* sprints_info = truncated_data.loc[:, "Sprint"]
sprints_info == Column(truncated_data.table, "Sprint")

(***************************************************************************)
(* The steps.                                                              *)
(***************************************************************************)
\* line 103: file_extraction_result = cls._load_data(file)
JiraLoadData ==
    /\ pc = "jira_load"
    /\ jira_extraction_result' = load_data(jira_file, disk_jira)
    /\ pc' = "jira_select"
    /\ UNCHANGED <<inputs, raised, truncated_data, active_pi, active_sprint, query,
                   normalized_jira_output_result, map_extraction_result,
                   normalized_map_file_result, table_to_export_result, returned,
                   written>>

\* lines 105-116: hand on the loader's JLError, or select the five columns
JiraSelectColumns ==
    /\ pc = "jira_select"
    /\ IF IsError(jira_extraction_result)
       THEN /\ normalized_jira_output_result' = jira_extraction_result
            /\ pc' = "map_load"
            /\ UNCHANGED truncated_data
       ELSE IF ~HasColumns(jira_extraction_result.table, JiraColumns)
       THEN /\ normalized_jira_output_result' = JLError(MissingColumnsMessage)
            /\ pc' = "map_load"
            /\ UNCHANGED truncated_data
       ELSE /\ truncated_data' =
                    DataFrame(SelectColumns(jira_extraction_result.table, JiraColumns))
            /\ pc' = "jira_rename"
            /\ UNCHANGED normalized_jira_output_result
    /\ UNCHANGED <<inputs, raised, jira_extraction_result, active_pi, active_sprint,
                   query, map_extraction_result, normalized_map_file_result,
                   table_to_export_result, returned, written>>

\* line 119: rename "Custom field (Feature Link)" to "Feature"
JiraRename ==
    /\ pc = "jira_rename"
    /\ truncated_data' =
            DataFrame(RenameColumn(truncated_data.table,
                                   "Custom field (Feature Link)", "Feature"))
    /\ pc' = "jira_stories"
    /\ UNCHANGED <<inputs, raised, jira_extraction_result, active_pi, active_sprint,
                   query, normalized_jira_output_result, map_extraction_result,
                   normalized_map_file_result, table_to_export_result, returned,
                   written>>

\* line 121: keep the rows whose Issue Type is 'Story'
JiraStories ==
    /\ pc = "jira_stories"
    /\ truncated_data' =
            DataFrame(QueryEquals(truncated_data.table, "Issue Type", <<"Story">>))
    /\ pc' = "determine_pi"
    /\ UNCHANGED <<inputs, raised, jira_extraction_result, active_pi, active_sprint,
                   query, normalized_jira_output_result, map_extraction_result,
                   normalized_map_file_result, table_to_export_result, returned,
                   written>>

\* line 125: active_pi = cls._determine_current_pi(sprints_info)
DetermineCurrentPi ==
    /\ pc = "determine_pi"
    /\ LET out == determine_current_pi(sprints_info.values)
       IN  IF out.exc # "none"
           THEN pc' = "raised" /\ raised' = out.exc /\ UNCHANGED active_pi
           ELSE pc' = "determine_sprint" /\ active_pi' = out.val /\ UNCHANGED raised
    /\ UNCHANGED <<inputs, jira_extraction_result, truncated_data, active_sprint,
                   query, normalized_jira_output_result, map_extraction_result,
                   normalized_map_file_result, table_to_export_result, returned,
                   written>>

\* line 127: active_sprint = cls._determine_latest_sprint(sprints_info, active_pi)
DetermineLatestSprint ==
    /\ pc = "determine_sprint"
    /\ LET out == determine_latest_sprint(sprints_info.values, active_pi)
       IN  IF out.exc # "none"
           THEN pc' = "raised" /\ raised' = out.exc /\ UNCHANGED active_sprint
           ELSE pc' = "compose_query" /\ active_sprint' = out.val /\ UNCHANGED raised
    /\ UNCHANGED <<inputs, jira_extraction_result, truncated_data, active_pi,
                   query, normalized_jira_output_result, map_extraction_result,
                   normalized_map_file_result, table_to_export_result, returned,
                   written>>

\* line 129: query = cls._compose_query(sprints_info, active_pi, active_sprint)
ComposeQuery ==
    /\ pc = "compose_query"
    /\ LET out == compose_query(sprints_info, active_pi, active_sprint)
       IN  IF out.exc # "none"
           THEN pc' = "raised" /\ raised' = out.exc /\ UNCHANGED query
           ELSE pc' = "jira_filter" /\ query' = out.val /\ UNCHANGED raised
    /\ UNCHANGED <<inputs, jira_extraction_result, truncated_data, active_pi,
                   active_sprint, normalized_jira_output_result,
                   map_extraction_result, normalized_map_file_result,
                   table_to_export_result, returned, written>>

\* lines 130-132: normalized_data = truncated_data.query("Sprint == @query")
JiraFilterSprint ==
    /\ pc = "jira_filter"
    /\ normalized_jira_output_result' =
            DataFrame(QueryEquals(truncated_data.table, "Sprint", query))
    /\ pc' = "map_load"
    /\ UNCHANGED <<inputs, raised, jira_extraction_result, truncated_data, active_pi,
                   active_sprint, query, map_extraction_result,
                   normalized_map_file_result, table_to_export_result, returned,
                   written>>

\* line 141: file_extraction_result = cls._load_data(file)
MapLoadData ==
    /\ pc = "map_load"
    /\ map_extraction_result' = load_data(map_file, disk_map)
    /\ pc' = "map_select"
    /\ UNCHANGED <<inputs, raised, jira_extraction_result, truncated_data, active_pi,
                   active_sprint, query, normalized_jira_output_result,
                   normalized_map_file_result, table_to_export_result, returned,
                   written>>

\* a variant that reports every failed load as missing columns
normalize_map_revalidates(extraction_result) ==
    IF IsError(extraction_result) \/ ~HasColumns(extraction_result.table, MapColumns)
    THEN JLError(MissingColumnsMessage)
    ELSE DataFrame(SelectColumns(extraction_result.table, MapColumns))

\* lines 143-154: hand on the loader's JLError, or select Feature and Label
normalize_map(extraction_result) ==
    IF IsError(extraction_result) THEN extraction_result
    ELSE IF ~HasColumns(extraction_result.table, MapColumns)
    THEN JLError(MissingColumnsMessage)
    ELSE DataFrame(SelectColumns(extraction_result.table, MapColumns))

MapSelectColumns ==
    /\ pc = "map_select"
    /\ normalized_map_file_result' = normalize_map(map_extraction_result)
    /\ pc' = "merge"
    /\ UNCHANGED <<inputs, raised, jira_extraction_result, truncated_data, active_pi,
                   active_sprint, query, normalized_jira_output_result,
                   map_extraction_result, table_to_export_result, returned, written>>

\* lines 166-181: the combined JLError, or the join and the new Summary
MergeFiles ==
    /\ pc = "merge"
    /\ LET error == merge_error(normalized_jira_output_result,
                                normalized_map_file_result)
       IN  IF IsError(error)
           THEN /\ table_to_export_result' = error
                /\ pc' = "to_csv"
                /\ UNCHANGED raised
           ELSE \E empty_apply_fails \in BOOLEAN :
                    LET out == merge_tables(normalized_jira_output_result.table,
                                            normalized_map_file_result.table,
                                            empty_apply_fails)
                    IN  IF out.exc # "none"
                        THEN /\ pc' = "raised"
                             /\ raised' = out.exc
                             /\ UNCHANGED table_to_export_result
                        ELSE /\ pc' = "to_csv"
                             /\ table_to_export_result' = out.val
                             /\ UNCHANGED raised
    /\ UNCHANGED <<inputs, jira_extraction_result, truncated_data, active_pi,
                   active_sprint, query, normalized_jira_output_result,
                   map_extraction_result, normalized_map_file_result, returned,
                   written>>

\* lines 194-199: return the JLError's message, or write the file
GenerateCsv ==
    /\ pc = "to_csv"
    /\ IF IsError(table_to_export_result)
       THEN /\ returned' = table_to_export_result.message
            /\ UNCHANGED written
       ELSE /\ written' = to_csv(table_to_export_result.table,
                                 export_file_name \o <<".csv">>, CsvColumns)
            /\ returned' = SuccessMessage
    /\ pc' = "done"
    /\ UNCHANGED <<inputs, raised, jira_extraction_result, truncated_data, active_pi,
                   active_sprint, query, normalized_jira_output_result,
                   map_extraction_result, normalized_map_file_result,
                   table_to_export_result>>

Next ==
    \/ JiraLoadData
    \/ JiraSelectColumns
    \/ JiraRename
    \/ JiraStories
    \/ DetermineCurrentPi
    \/ DetermineLatestSprint
    \/ ComposeQuery
    \/ JiraFilterSprint
    \/ MapLoadData
    \/ MapSelectColumns
    \/ MergeFiles
    \/ GenerateCsv


(***************************************************************************)
(* Inputs: paths, Sprint labels, rows, tables and file contents.           *)
(***************************************************************************)
L_PI231_S4 ==
    <<"P", "I", "2", "3", ".", "1", " ", "S", "p", "r", "i", "n", "t", " ", "4">>
L_PI232_S1 ==
    <<"P", "I", "2", "3", ".", "2", " ", "S", "p", "r", "i", "n", "t", " ", "1">>
L_PI232_S3 ==
    <<"P", "I", "2", "3", ".", "2", " ", "S", "p", "r", "i", "n", "t", " ", "3">>
\* another structure: a team name in front
L_Team ==
    <<"T", "e", "a", "m", " ", "P", "I", "2", "3", ".", "2", " ", "S", "p", "r",
      "i", "n", "t", " ", "5">>
\* no "NN.N" in it
L_NoPi ==
    <<"S", "p", "r", "i", "n", "t", " ", "7">>
\* a second "NN.N" in the text in front of the period
L_Version ==
    <<"v", "1", "0", ".", "1", " ", "P", "I", "2", "3", ".", "1", " ", "S", "p",
      "r", "i", "n", "t", " ", "4">>
L_Version2 ==
    <<"v", "1", "0", ".", "1", " ", "P", "I", "2", "3", ".", "2", " ", "S", "p",
      "r", "i", "n", "t", " ", "1">>
\* no sprint digit at the end
L_NoDigit ==
    <<"P", "I", "2", "3", ".", "2", " ", "S", "p", "r", "i", "n", "t">>
\* ends in a backslash
L_Backslash ==
    <<"P", "I", "2", "3", ".", "2", " ", "S", "p", "r", "i", "n", "t", "\\">>

DigitName == <<"1", "2", "3", "4", "5", "6", "7", "8", "9">>

\* the columns of a complete Jira export, one of them not used by the pipeline
ExportColumns ==
    <<"Issue key", "Summary", "Issue Type", "Status",
      "Custom field (Feature Link)", "Sprint">>

DropColumn(cols, c) == SelectSeq(cols, LAMBDA x : x # c)

\* row i of a Jira export: its Issue key and Summary carry the row number
ExportRow(i, k) ==
    [c \in Range(ExportColumns) |->
        CASE c = "Issue key" -> <<"JL-", DigitName[i]>>
          [] c = "Summary" -> IF k.summary THEN <<"Story", " ", "no", " ", DigitName[i]>>
                              ELSE NaN
          [] c = "Issue Type" -> k.type
          [] c = "Status" -> <<"Open">>
          [] c = "Custom field (Feature Link)" -> k.feature
          [] c = "Sprint" -> k.sprint]

Restrict(row, cols) == [c \in Range(cols) |-> row[c]]

\* a table as a pandas reader loads it: the index is 0, 1, 2, ...
LoadedTable(cols, rows) ==
    [columns |-> cols,
     index   |-> [i \in 1..Len(rows) |-> i - 1],
     rows    |-> [i \in 1..Len(rows) |-> Restrict(rows[i], cols)]]

ExportTable(cols, kinds) ==
    LoadedTable(cols, [i \in 1..Len(kinds) |-> ExportRow(i, kinds[i])])

MapRow(k) ==
    [c \in {"Feature", "Label", "Owner"} |->
        CASE c = "Feature" -> k.feature
          [] c = "Label" -> k.label
          [] c = "Owner" -> <<"Kiwi">>]

MapTable(cols, kinds) ==
    LoadedTable(cols, [i \in 1..Len(kinds) |-> MapRow(kinds[i])])

SeqsUpTo(S, n) == UNION {[1..m -> S] : m \in 0..n}

Missing == [kind |-> "missing", table |-> NoTable]
File(t) == [kind |-> "file", table |-> t]

Kind(type, sprint, feature, summary) ==
    [type |-> type, sprint |-> sprint, feature |-> feature, summary |-> summary]

Story == <<"Story">>
Task == <<"Task">>
F1 == <<"F-1">>
F2 == <<"F-2">>
MapKind(feature, label) == [feature |-> feature, label |-> label]

JiraCsv == <<"jira", ".", "csv">>
MapXlsx == <<"map", ".", "xlsx">>
Report == <<"report">>

\* the start of a run: generate_csv has been called and nothing is assigned
InitRun(jira_files, jira_disk, map_files, map_disk, names) ==
    /\ jira_file \in jira_files
    /\ disk_jira \in jira_disk
    /\ map_file \in map_files
    /\ disk_map \in map_disk
    /\ export_file_name \in names
    /\ pc = "jira_load"
    /\ raised = "none"
    /\ jira_extraction_result = Unset
    /\ truncated_data = Unset
    /\ active_pi = <<>>
    /\ active_sprint = <<>>
    /\ query = <<>>
    /\ normalized_jira_output_result = Unset
    /\ map_extraction_result = Unset
    /\ normalized_map_file_result = Unset
    /\ table_to_export_result = Unset
    /\ returned = <<>>
    /\ written = NoFile

(***************************************************************************)
(* Spec: the whole pipeline over present and absent files, complete and    *)
(* incomplete tables, Story and other rows.                                *)
(***************************************************************************)
PipelineKinds ==
    {Kind(Story, L_PI231_S4, F1, TRUE), Kind(Story, L_PI232_S3, F1, TRUE),
     Kind(Task, L_PI231_S4, F1, TRUE)}

PipelineExportColumns ==
    {ExportColumns} \cup
        {DropColumn(ExportColumns, c) : c \in Range(ExportColumns) \ {"Status"}}

PipelineJiraDisk ==
    {Missing} \cup
    {File(ExportTable(cols, kinds)) :
        cols \in PipelineExportColumns, kinds \in SeqsUpTo(PipelineKinds, MaxRows)}

PipelineMapDisk ==
    {Missing} \cup
    {File(MapTable(cols, kinds)) :
        cols \in {<<"Feature", "Label">>, <<"Feature", "Label", "Owner">>,
                  <<"Feature", "Owner">>, <<"Label">>},
        kinds \in {<<>>, <<MapKind(F1, <<"L-1">>)>>}}

Init ==
    InitRun({JiraCsv, <<"jira", ".", "txt">>}, PipelineJiraDisk,
            {MapXlsx, <<"map">>}, PipelineMapDisk, {Report})

Spec == Init /\ [][Next]_vars

(***************************************************************************)
(* SpecLoader: the loader over paths with and without a supported          *)
(* extension, naming a file or not.                                        *)
(***************************************************************************)
\* paths as fragments, "." a fragment of its own; bare is a file name that is
\* itself one of the supported type names
Paths(stem, bare) ==
    {<<stem, ".", "csv">>, <<stem, ".", "xls">>, <<stem, ".", "xlsx">>,
     <<stem, ".", "txt">>, <<stem, ".", "CSV">>, <<stem>>, <<stem, ".">>,
     <<stem, ".", "v2", ".", "csv">>, <<stem, ".", "csv", ".", "bak">>,
     <<stem, ".", "d/", "csv">>, <<bare>>}

LoaderJiraDisk ==
    {Missing, File(ExportTable(ExportColumns, <<Kind(Story, L_PI231_S4, F1, TRUE)>>))}

LoaderMapDisk ==
    {Missing, File(MapTable(MapColumns, <<MapKind(F1, <<"L-1">>)>>))}

InitLoader ==
    InitRun(Paths("jira", "csv"), LoaderJiraDisk, Paths("map", "xls"), LoaderMapDisk,
            {Report, <<"out/", "sprint", ".", "v2">>})

SpecLoader == InitLoader /\ [][Next]_vars

(***************************************************************************)
(* SpecSprint: the Jira normalizer over Sprint labels of every shape.      *)
(***************************************************************************)
SprintLabels ==
    {L_PI231_S4, L_PI232_S1, L_PI232_S3, L_Team, L_NoPi, L_Version, L_Version2,
     L_NoDigit, L_Backslash, NaN}

SprintKinds ==
    {Kind(Story, l, F1, TRUE) : l \in SprintLabels}
        \cup {Kind(Task, L_PI232_S3, F1, TRUE)}

SprintJiraDisk ==
    {File(ExportTable(ExportColumns, kinds)) :
        kinds \in SeqsUpTo(SprintKinds, MaxSprintRows)}

InitSprint ==
    InitRun({JiraCsv}, SprintJiraDisk, {MapXlsx}, LoaderMapDisk, {Report})

SpecSprint == InitSprint /\ [][Next]_vars

(***************************************************************************)
(* SpecJoin: the merger over Feature values that match, differ or are      *)
(* missing on either side.                                                 *)
(***************************************************************************)
JoinKinds ==
    {Kind(Story, L_PI231_S4, f, TRUE) : f \in {F1, F2, NaN}}
        \cup {Kind(Story, L_PI231_S4, F1, FALSE)}

JoinJiraDisk ==
    {File(ExportTable(ExportColumns, kinds)) :
        kinds \in SeqsUpTo(JoinKinds, MaxJoinRows)}

JoinMapKinds ==
    {MapKind(f, <<"L-1">>) : f \in {F1, F2, NaN}} \cup {MapKind(F1, <<"L-2">>)}

JoinMapDisk ==
    {File(MapTable(MapColumns, kinds)) :
        kinds \in SeqsUpTo(JoinMapKinds, MaxJoinRows)}

InitJoin ==
    InitRun({JiraCsv}, JoinJiraDisk, {MapXlsx}, JoinMapDisk, {Report})

SpecJoin == InitJoin /\ [][Next]_vars


(***************************************************************************)
(* Properties.                                                             *)
(***************************************************************************)
Terminated == pc \in {"done", "raised"}

\* the run is past the Jira normalizer's column check
PastJiraSelect == pc \notin {"jira_load", "jira_select"}

\* the run is past the merger
PastMerge == pc \in {"to_csv", "done"}

\* the five columns the Export Normalizer requires, as the specification lists them
RequiredExportColumns ==
    {"Summary", "Issue key", "Issue Type", "Custom field (Feature Link)", "Sprint"}

\* the path ends in ".xls", ".xlsx" or ".csv", or is one of these words alone
SupportedPath(file) ==
    \E e \in {"xls", "xlsx", "csv"} :
        \/ file = <<e>>
        \/ Len(file) >= 2 /\ file[Len(file)] = e /\ file[Len(file) - 1] = "."

JiraLoads == disk_jira.kind = "file" /\ SupportedPath(jira_file)
MapLoads == disk_map.kind = "file" /\ SupportedPath(map_file)

\* positions of the Story rows of the Jira export on disk
StoryRows ==
    {i \in 1..Len(disk_jira.table.rows) :
        "Issue Type" \in DOMAIN disk_jira.table.rows[i]
        /\ disk_jira.table.rows[i]["Issue Type"] = <<"Story">>}

\* C1: for every content of the two input files and every output name,
\* generate_csv ends by returning a string; no stage ends in a raised failure.
C1_NeverThrows ==
    Terminated => (pc = "done" /\ raised = "none" /\ returned # <<>>)

\* both files load and hold tables that meet the column contracts
C2_Precondition ==
    /\ JiraLoads
    /\ MapLoads
    /\ RequiredExportColumns \subseteq Range(disk_jira.table.columns)
    /\ StoryRows # {}
    /\ {"Feature", "Label"} \subseteq Range(disk_map.table.columns)

\* C2: when both files load, the export table has the five required columns
\* and at least one Story row and the map table has Feature and Label, then
\* generate_csv returns "CSV file generated successfully!" and writes a file
\* with the header Issue Type, Summary, Label and one row per joined record,
\* whatever the order of the Story and the other rows.
C2_ValidInputsSucceed ==
    (C2_Precondition /\ Terminated) =>
        /\ pc = "done"
        /\ returned = <<"CSV file generated successfully!">>
        /\ written.name = export_file_name \o <<".csv">>
        /\ written.header = <<"Issue Type", "Summary", "Label">>
        /\ Len(written.rows) = Len(table_to_export_result.table.rows)

\* the message `whole` holds the message `part` followed by the annotation `source`
AnnotatedWith(whole, part, source) ==
    \E gap \in {<<>>, <<" ">>} : Contains(whole, part \o gap \o source)

JiraSource == <<"(from Jira extraction file)">>
MapSource == <<"(from map file)">>

\* C3: the merger runs both normalizations; when both return an Error its
\* result is one Error holding both messages, each annotated with its source;
\* when one does, that message annotated with its own source only; when none
\* does, no Error.  With both files missing generate_csv returns a string
\* naming both "File not found!" failures with their sources.
C3_MergerReportsEveryFailure ==
    PastMerge =>
        LET j == normalized_jira_output_result
            m == normalized_map_file_result
            r == table_to_export_result
        IN  /\ j.kind # "unset" /\ m.kind # "unset"
            /\ (IsError(j) /\ IsError(m)) =>
                    /\ IsError(r)
                    /\ AnnotatedWith(r.message, j.message, JiraSource)
                    /\ AnnotatedWith(r.message, m.message, MapSource)
            /\ (IsError(j) /\ ~IsError(m)) =>
                    /\ IsError(r)
                    /\ AnnotatedWith(r.message, j.message, JiraSource)
                    /\ ~Contains(r.message, MapSource)
            /\ (~IsError(j) /\ IsError(m)) =>
                    /\ IsError(r)
                    /\ AnnotatedWith(r.message, m.message, MapSource)
                    /\ ~Contains(r.message, JiraSource)
            /\ (~IsError(j) /\ ~IsError(m)) => ~IsError(r)
            /\ (pc = "done" /\ SupportedPath(jira_file) /\ SupportedPath(map_file)
                    /\ disk_jira.kind = "missing" /\ disk_map.kind = "missing") =>
                    /\ AnnotatedWith(returned, <<"File not found!">>, JiraSource)
                    /\ AnnotatedWith(returned, <<"File not found!">>, MapSource)

C3_Witness ==
    /\ pc = "done"
    /\ disk_jira.kind = "missing" /\ disk_map.kind = "missing"
    /\ IsError(normalized_jira_output_result)
    /\ IsError(normalized_map_file_result)
    /\ Contains(returned, <<"File not found!">> \o JiraSource)
    /\ Contains(returned, <<"File not found!", " ">> \o MapSource)

\* C4 as stated: for every path that names no existing file, whatever its
\* extension, the Loader returns the Error "File not found!".
C4_AlwaysFileNotFound ==
    /\ (pc # "jira_load" /\ disk_jira.kind = "missing") =>
            jira_extraction_result = JLError(<<"File not found!">>)
    /\ (map_extraction_result.kind # "unset" /\ disk_map.kind = "missing") =>
            map_extraction_result = JLError(<<"File not found!">>)

\* what the Loader returned for `file`, which names no existing file
LoaderOnMissing(file, result) ==
    /\ IsError(result)
    /\ SupportedPath(file) => result.message = <<"File not found!">>
    /\ ~SupportedPath(file) =>
            result.message = <<"Unsupported file type.\n",
                               "Please use only excel or csv files.">>

\* C4 amended: for a path that names no existing file the Loader returns the
\* Error "File not found!" when the path has a supported extension, and the
\* unsupported-type Error otherwise.
C4_FileNotFoundWhenSupported ==
    /\ (pc # "jira_load" /\ disk_jira.kind = "missing") =>
            LoaderOnMissing(jira_file, jira_extraction_result)
    /\ (map_extraction_result.kind # "unset" /\ disk_map.kind = "missing") =>
            LoaderOnMissing(map_file, map_extraction_result)

C4_Witness ==
    /\ disk_jira.kind = "missing"
    /\ jira_file = <<"jira", ".", "xlsx">>
    /\ jira_extraction_result = JLError(<<"File not found!">>)
    /\ disk_map.kind = "missing"
    /\ map_file = <<"map", ".", "txt">>
    /\ map_extraction_result.message # <<"File not found!">>
    /\ IsError(map_extraction_result)

\* the export file loads and its table lacks a required column
C5_LacksColumn ==
    JiraLoads /\ ~(RequiredExportColumns \subseteq Range(disk_jira.table.columns))

\* C5: for a loaded export table that lacks one of the five required columns
\* the Export Normalizer returns the missing-columns Error and does none of
\* the later steps: no rename, no Story filter, no period or sub-period
\* inference, no sprint filter, no partly filtered table.
C5_MissingColumnsStopNormalizer ==
    C5_LacksColumn =>
        /\ pc \notin {"jira_rename", "jira_stories", "determine_pi",
                      "determine_sprint", "compose_query", "jira_filter", "raised"}
        /\ truncated_data = Unset
        /\ active_pi = <<>> /\ active_sprint = <<>> /\ query = <<>>
        /\ PastJiraSelect =>
                normalized_jira_output_result =
                    JLError(<<"One or more table columns missing.\n",
                              "Please check if table is in expected format.">>)

C5_Witness ==
    /\ C5_LacksColumn
    /\ Len(disk_jira.table.rows) > 0
    /\ pc = "done"
    /\ IsError(normalized_jira_output_result)


\* the normalized tables the merger joined
JoinLeft == normalized_jira_output_result.table
JoinRight == normalized_map_file_result.table

\* the merger returned a table
Merged == PastMerge /\ table_to_export_result.kind = "table"

\* C6: the merged table has exactly one row for each pair of a normalized
\* export row and a normalized map row whose Feature values are equal and not
\* null; a Feature that is on one side only, or null, gives no row.
C6_InnerJoinOnNonNullFeature ==
    Merged =>
        LET pairs == {<<i, j>> \in (1..Len(JoinLeft.rows)) \X (1..Len(JoinRight.rows)) :
                        /\ JoinLeft.rows[i]["Feature"] = JoinRight.rows[j]["Feature"]
                        /\ JoinLeft.rows[i]["Feature"] # NaN}
            out == table_to_export_result.table.rows
        IN  /\ Len(out) = Cardinality(pairs)
            /\ \A k \in 1..Len(out) : out[k]["Feature"] # NaN

\* the row of the Jira export on disk that carries the Issue key `key`
ExportRowOf(key) ==
    disk_jira.table.rows[CHOOSE i \in 1..Len(disk_jira.table.rows) :
                            disk_jira.table.rows[i]["Issue key"] = key]

\* C8: in every row of the merged table the Summary is the row's Issue key,
\* then exactly one space, then the row's original Summary.
C8_IssueKeyThenSummary ==
    Merged =>
        \A k \in 1..Len(table_to_export_result.table.rows) :
            LET row == table_to_export_result.table.rows[k]
                key == row["Issue key"]
                old == ExportRowOf(key)["Summary"]
                n   == Len(key)
            IN  /\ Len(row["Summary"]) = n + 1 + Len(old)
                /\ SubSeq(row["Summary"], 1, n) = key
                /\ row["Summary"][n + 1] = " "
                /\ SubSeq(row["Summary"], n + 2, n + 1 + Len(old)) = old

C8_Witness ==
    /\ pc = "done"
    /\ Len(table_to_export_result.table.rows) = 2
    /\ table_to_export_result.table.rows[2]["Summary"] =
            <<"JL-", "2", " ", "Story", " ", "no", " ", "2">>
    /\ written.rows[2][2] = <<"JL-", "2", " ", "Story", " ", "no", " ", "2">>

\* C9 as stated: every stage that receives an Error returns that Error with
\* its message unmodified: the two normalizers the Loader's, the merger and
\* generate_csv a normalizer's.
NormalizersHandOn ==
    /\ (PastJiraSelect /\ IsError(jira_extraction_result)) =>
            normalized_jira_output_result = jira_extraction_result
    /\ (normalized_map_file_result.kind # "unset" /\ IsError(map_extraction_result)) =>
            normalized_map_file_result = map_extraction_result

C9_ErrorsPassUnmodified ==
    /\ NormalizersHandOn
    /\ (PastMerge /\ IsError(normalized_jira_output_result)
            /\ ~IsError(normalized_map_file_result)) =>
            table_to_export_result.message = normalized_jira_output_result.message
    /\ (PastMerge /\ ~IsError(normalized_jira_output_result)
            /\ IsError(normalized_map_file_result)) =>
            table_to_export_result.message = normalized_map_file_result.message
    /\ (pc = "done" /\ IsError(normalized_jira_output_result)
            /\ ~IsError(normalized_map_file_result)) =>
            returned = normalized_jira_output_result.message
    /\ (pc = "done" /\ ~IsError(normalized_jira_output_result)
            /\ IsError(normalized_map_file_result)) =>
            returned = normalized_map_file_result.message

\* `whole` is `part` with text added behind it
ProperPrefix(part, whole) ==
    Len(part) < Len(whole) /\ SubSeq(whole, 1, Len(part)) = part

\* C9 amended: the two normalizers return the Loader's Error unchanged without
\* validating columns, and generate_csv returns the message of the merger's
\* Error unchanged; the merger does not hand a normalizer's Error on
\* unchanged: it returns a new Error whose message is the received message
\* with the name of its source added behind it.
C9_ErrorsPassAnnotatedByMerger ==
    /\ NormalizersHandOn
    /\ (PastMerge /\ IsError(normalized_jira_output_result)) =>
            /\ IsError(table_to_export_result)
            /\ ProperPrefix(normalized_jira_output_result.message,
                            table_to_export_result.message)
    /\ (PastMerge /\ ~IsError(normalized_jira_output_result)
            /\ IsError(normalized_map_file_result)) =>
            /\ IsError(table_to_export_result)
            /\ ProperPrefix(normalized_map_file_result.message,
                            table_to_export_result.message)
    /\ (pc = "done" /\ IsError(table_to_export_result)) =>
            /\ returned = table_to_export_result.message
            /\ written = NoFile

C9_Witness ==
    /\ pc = "done"
    /\ disk_jira.kind = "file"
    /\ jira_extraction_result.message # <<>>
    /\ normalized_jira_output_result = jira_extraction_result
    /\ ~IsError(normalized_map_file_result)
    /\ returned = jira_extraction_result.message \o <<" ">> \o JiraSource


\* the Sprint cell of row i of the Jira export on disk
SprintOf(i) == disk_jira.table.rows[i]["Sprint"]

\* the steps of the Jira normalizer that have been done
PiDetermined ==
    pc \in {"determine_sprint", "compose_query", "jira_filter"}
        \/ normalized_jira_output_result.kind = "table"
SprintDetermined ==
    pc \in {"compose_query", "jira_filter"}
        \/ normalized_jira_output_result.kind = "table"
QueryComposed ==
    pc = "jira_filter" \/ normalized_jira_output_result.kind = "table"
JiraNormalized == normalized_jira_output_result.kind = "table"

\* the index labels (row numbers from 0) of the returned rows
ReturnedLabels == Range(normalized_jira_output_result.table.index)

\* the returned table is the rows at the positions P of the export, in order
ReturnsRows(P) ==
    LET t == normalized_jira_output_result.table
    IN  /\ Len(t.rows) = Cardinality(P)
        /\ ReturnedLabels = {i - 1 : i \in P}
        /\ \A k \in 1..Len(t.rows) :
                /\ k > 1 => t.index[k - 1] < t.index[k]
                /\ t.rows[k]["Issue key"] =
                        disk_jira.table.rows[t.index[k] + 1]["Issue key"]
                /\ t.rows[k]["Sprint"] = SprintOf(t.index[k] + 1)
                /\ t.rows[k]["Issue Type"] = <<"Story">>

\* the Sprint values of the Story rows, in table order
StorySprintSeq ==
    [k \in 1..Cardinality(StoryRows) |-> SprintOf(SortedSeq(StoryRows)[k])]

\* C7: over the Story rows of a valid export table the Export Normalizer
\* takes as current period the maximal "NN.N" match of the Sprint values, as
\* current sub-period the maximal last character of the Sprint values that
\* contain the period, composes the label from the first row's Sprint value
\* with the period and the trailing digit replaced, and returns exactly the
\* Story rows whose Sprint equals the label.  For "PI23.1 Sprint 4",
\* "PI23.2 Sprint 1", "PI23.2 Sprint 3": period 23.2, sub-period 3, only the
\* "PI23.2 Sprint 3" row.
C7_LatestSprintInference ==
    /\ PiDetermined =>
            /\ \E i \in StoryRows : active_pi = PiGroup(SprintOf(i))
            /\ \A i \in StoryRows : ~StrLess(active_pi, PiGroup(SprintOf(i)))
    /\ SprintDetermined =>
            /\ Len(active_sprint) = 1
            /\ \E i \in StoryRows :
                    /\ Contains(SprintOf(i), active_pi)
                    /\ active_sprint[1] = SprintOf(i)[Len(SprintOf(i))]
            /\ \A i \in StoryRows :
                    Contains(SprintOf(i), active_pi) =>
                        Ord(SprintOf(i)[Len(SprintOf(i))]) <= Ord(active_sprint[1])
    /\ QueryComposed =>
            query = SubSprint(SubPi(SprintOf(1), active_pi), active_sprint)
    /\ JiraNormalized =>
            ReturnsRows({i \in StoryRows : SprintOf(i) = query})
    /\ StorySprintSeq = <<L_PI231_S4, L_PI232_S1, L_PI232_S3>> =>
            /\ PiDetermined => active_pi = <<"2", "3", ".", "2">>
            /\ SprintDetermined => active_sprint = <<"3">>
            /\ JiraNormalized =>
                    /\ Len(normalized_jira_output_result.table.rows) = 1
                    /\ normalized_jira_output_result.table.rows[1]["Sprint"] = L_PI232_S3

C7_Witness ==
    /\ pc = "done"
    /\ StoryRows = {1, 2, 3}
    /\ StorySprintSeq = <<L_PI231_S4, L_PI232_S1, L_PI232_S3>>
    /\ active_pi = <<"2", "3", ".", "2">>
    /\ active_sprint = <<"3">>
    /\ query = L_PI232_S3
    /\ normalized_jira_output_result.table.index = <<2>>

\* every Story row's Sprint is the same text around an "NN.N" period that
\* starts behind p characters and a last character that is a digit
SameStructure(p) ==
    \A i \in StoryRows :
        LET s == SprintOf(i)
            f == SprintOf(SortedSeq(StoryRows)[1])
        IN  /\ IsStr(s)
            /\ Len(s) >= p + 5
            /\ PiPatternAt(s, p + 1)
            /\ s[Len(s)] \in Digits
            /\ SubSeq(s, 1, p) = SubSeq(f, 1, p)
            /\ SubSeq(s, p + 5, Len(s) - 1) = SubSeq(f, p + 5, Len(f) - 1)

\* the period is the only "NN.N" that occurs in the Sprint values
OnePeriod(p) ==
    \A i \in StoryRows :
        {k \in 1..Len(SprintOf(i)) : PiPatternAt(SprintOf(i), k)} = {p + 1}

PeriodOf(i, p) == SubSeq(SprintOf(i), p + 1, p + 4)
DigitOf(i) == <<SprintOf(i)[Len(SprintOf(i))]>>

\* the Story rows with the maximal period and, among them, the maximal digit
LatestRows(p) ==
    LET top == {i \in StoryRows :
                    \A j \in StoryRows : ~StrLess(PeriodOf(i, p), PeriodOf(j, p))}
    IN  {i \in top : \A j \in top : ~StrLess(DigitOf(i), DigitOf(j))}

LatestReturned(p) ==
    /\ pc = "raised" => JiraNormalized
    /\ JiraNormalized =>
            /\ Len(normalized_jira_output_result.table.rows) > 0
            /\ ReturnsRows(LatestRows(p))
            /\ \A k \in 1..Len(normalized_jira_output_result.table.rows) :
                    normalized_jira_output_result.table.rows[k]["Sprint"] =
                        normalized_jira_output_result.table.rows[1]["Sprint"]

\* C10 as stated: if every Story row's Sprint has the same structure (the same
\* text but for the "NN.N" period and the one trailing sprint digit) and the
\* first row of the table is a Story, the Export Normalizer's result is not
\* empty and is exactly the Story rows with the maximal period and, among
\* those, the maximal trailing digit; every returned row is a Story and all
\* returned rows share one Sprint value.
C10_SameStructureGivesLatest ==
    \A p \in 0..MaxLabelLen :
        (JiraLoads /\ 1 \in StoryRows /\ SameStructure(p)) => LatestReturned(p)

\* C10 amended: the same, provided the period is the only place of the Sprint
\* values where an "NN.N" occurs.
C10_OnePeriodGivesLatest ==
    \A p \in 0..MaxLabelLen :
        (JiraLoads /\ 1 \in StoryRows /\ SameStructure(p) /\ OnePeriod(p)) =>
            LatestReturned(p)

C10_Witness ==
    /\ pc = "done"
    /\ Len(disk_jira.table.rows) = 3
    /\ StoryRows = {1, 3}
    /\ SameStructure(2) /\ OnePeriod(2)
    /\ SprintOf(1) = L_PI232_S1
    /\ SprintOf(3) = L_PI232_S3
    /\ normalized_jira_output_result.table.index = <<2>>

=============================================================================
